---- MODULE Spec2Model ----
(***************************************************************************)
(* A model of ReluConstraint (src/src/reluplex/ReluConstraint.cpp): the    *)
(* piecewise-linear constraint f = max(0, b) that watches two variables of *)
(* a tableau, caches their values and bounds, collapses its list of valid  *)
(* case splits on qualifying bound notifications and applies the remaining *)
(* split to the tableau, and answers satisfied() / getPossibleFixes().     *)
(*                                                                         *)
(* Doubles are modelled as integers.  FloatUtils, the ASSERT macro, Map,   *)
(* List and ITableau are not part of the modelled file; they are modelled  *)
(* at their interface: sign tests are strict comparisons with zero,        *)
(* equality is equality within the tolerance Epsilon, a failed ASSERT      *)
(* stops the program, and the tableau records what it is asked to do.      *)
(***************************************************************************)
EXTENDS Integers, Sequences, FiniteSets, TLC

VARIABLES
    tableau,        \* _tableau: the registered tableau, or NULL
    assignment,     \* _assignment: variable -> value (a partial map)
    lowerBounds,    \* _lowerBounds: variable -> bound (a partial map)
    upperBounds,    \* _upperBounds: variable -> bound (a partial map)
    validSplits,    \* _validSplits: the list of splits still possible
    watching,       \* per tableau, the variables this constraint watches
    applied,        \* the applySplit calls the tableaus received, in order
    stack,          \* the applySplit calls that have not returned yet
    last,           \* the most recent call on the constraint and its outcome
    seen,           \* the kinds of qualifying bound notification so far
    unregistered,   \* unregisterAsWatcher succeeded, no registration since
    calls           \* the number of calls made so far

vars == <<tableau, assignment, lowerBounds, upperBounds, validSplits,
          watching, applied, stack, last, seen, unregistered, calls>>

---------------------------------------------------------------------------
(* Bounds of the model *)

\* Values and bounds are drawn from -NegVal .. MaxVal.
NegVal == 1
MaxVal == 3
\* At most MaxCalls calls are made on the constraint in one behaviour.
MaxCalls == 3

Values == (0 - NegVal)..MaxVal

---------------------------------------------------------------------------
(* The constraint's two variables, and a variable that is not its own *)

\* _b and _f, the constructor's arguments; X is any other variable id.
B == 1
F == 2
X == 3
Vars == {B, F, X}

NULL == "NULL"
Tableaus == {"T1", "T2"}

\* split 0 = active phase, split 1 = inactive phase
Active == "Active"
Inactive == "Inactive"
\* _splits, indexed from 1: _splits[0] is Splits[1]
Splits == <<Active, Inactive>>

---------------------------------------------------------------------------
(* FloatUtils *)

\* the equality tolerance, in units of the integer grid
Epsilon == 1

Abs(x) == IF x < 0 THEN 0 - x ELSE x

IsPositive(x) == x > 0

IsNegative(x) == x < 0

AreEqual(x, y) == Abs(x - y) <= Epsilon

---------------------------------------------------------------------------
(* Map *)

EmptyMap == [k \in {} |-> 0]

Exists(m, k) == k \in DOMAIN m

Get(m, k) == m[k]

\* m[k] = v
Put(m, k, v) == [j \in (DOMAIN m) \cup {k} |-> IF j = k THEN v ELSE m[j]]

---------------------------------------------------------------------------
(* ITableau *)

RegisterToWatchVariable(w, t, v) == [w EXCEPT ![t] = @ \cup {v}]

UnregisterToWatchVariable(w, t, v) == [w EXCEPT ![t] = @ \ {v}]

\* applySplit( split ) on tableau t: the tableau receives the split
ApplySplit(log, t, split) == Append(log, <<t, split>>)

---------------------------------------------------------------------------
(* Outcomes of a call *)

Ok == "ok"
\* a failed ASSERT: the program stops
AssertionViolation == "AssertionViolation"
\* throw ReluplexError( PARTICIPATING_VARIABLES_ABSENT )
ParticipatingVariablesAbsent == "PARTICIPATING_VARIABLES_ABSENT"

NoCall == [op |-> "construct", var |-> 0, val |-> 0, tab |-> NULL,
           result |-> Ok, fixes |-> <<>>, splits |-> <<>>]

Call(op, var, val, tab, result) ==
    [op |-> op, var |-> var, val |-> val, tab |-> tab,
     result |-> result, fixes |-> <<>>, splits |-> <<>>]

\* The program runs until an ASSERT fails.
Running == last.result # AssertionViolation

CanCall == Running /\ calls < MaxCalls

---------------------------------------------------------------------------
(* ReluConstraint::ReluConstraint( b, f ) *)

\* as Init, with the append of _splits[1] to _validSplits left out
InitWithoutInactive ==
    /\ tableau = NULL
    /\ assignment = EmptyMap
    /\ lowerBounds = EmptyMap
    /\ upperBounds = EmptyMap
    /\ validSplits = <<Splits[1]>>
    /\ watching = [t \in Tableaus |-> {}]
    /\ applied = <<>>
    /\ stack = <<>>
    /\ last = NoCall
    /\ seen = {}
    /\ unregistered = FALSE
    /\ calls = 0

Init ==
    /\ tableau = NULL
    /\ assignment = EmptyMap
    /\ lowerBounds = EmptyMap
    /\ upperBounds = EmptyMap
    /\ validSplits = <<Splits[1], Splits[2]>>
    /\ watching = [t \in Tableaus |-> {}]
    /\ applied = <<>>
    /\ stack = <<>>
    /\ last = NoCall
    /\ seen = {}
    /\ unregistered = FALSE
    /\ calls = 0

---------------------------------------------------------------------------
(* registerAsWatcher / unregisterAsWatcher *)

\* as RegisterAsWatcher, with the registration for _f left out
RegisterAsWatcherOnlyB(t) ==
    /\ CanCall
    /\ tableau' = t
    /\ unregistered' = FALSE
    /\ watching' = RegisterToWatchVariable(watching, t, B)
    /\ last' = Call("registerAsWatcher", 0, 0, t, Ok)
    /\ calls' = calls + 1
    /\ UNCHANGED <<assignment, lowerBounds, upperBounds, validSplits,
                   applied, stack, seen>>

RegisterAsWatcher(t) ==
    /\ CanCall
    /\ tableau' = t
    /\ unregistered' = FALSE
    /\ watching' = RegisterToWatchVariable(
                       RegisterToWatchVariable(watching, t, B), t, F)
    /\ last' = Call("registerAsWatcher", 0, 0, t, Ok)
    /\ calls' = calls + 1
    /\ UNCHANGED <<assignment, lowerBounds, upperBounds, validSplits,
                   applied, stack, seen>>

\* as UnregisterAsWatcher, without the ASSERT
UnregisterAsWatcherUnchecked(t) ==
    /\ CanCall
    /\ calls' = calls + 1
    /\ watching' = UnregisterToWatchVariable(
                        UnregisterToWatchVariable(watching, t, B), t, F)
    /\ tableau' = NULL
    /\ unregistered' = TRUE
    /\ last' = Call("unregisterAsWatcher", 0, 0, t, Ok)
    /\ UNCHANGED <<assignment, lowerBounds, upperBounds, validSplits,
                   applied, stack, seen>>

UnregisterAsWatcher(t) ==
    /\ CanCall
    /\ calls' = calls + 1
    /\ IF tableau = t
       THEN /\ watching' = UnregisterToWatchVariable(
                               UnregisterToWatchVariable(watching, t, B), t, F)
            /\ tableau' = NULL
            /\ unregistered' = TRUE
            /\ last' = Call("unregisterAsWatcher", 0, 0, t, Ok)
       ELSE \* ASSERT( _tableau == tableau ) fails
            /\ last' = Call("unregisterAsWatcher", 0, 0, t, AssertionViolation)
            /\ UNCHANGED <<watching, tableau, unregistered>>
    /\ UNCHANGED <<assignment, lowerBounds, upperBounds, validSplits,
                   applied, stack, seen>>

---------------------------------------------------------------------------
(* notifyVariableValue *)

\* as NotifyVariableValue, with a value already cached kept (an insert
\* that does not overwrite)
NotifyVariableValueKeepFirst(v, value) ==
    /\ CanCall
    /\ assignment' = IF Exists(assignment, v)
                     THEN assignment
                     ELSE Put(assignment, v, value)
    /\ last' = Call("notifyVariableValue", v, value, NULL, Ok)
    /\ calls' = calls + 1
    /\ UNCHANGED <<tableau, unregistered, lowerBounds, upperBounds,
                   validSplits, watching, applied, stack, seen>>

NotifyVariableValue(v, value) ==
    /\ CanCall
    /\ assignment' = Put(assignment, v, value)
    /\ last' = Call("notifyVariableValue", v, value, NULL, Ok)
    /\ calls' = calls + 1
    /\ UNCHANGED <<tableau, unregistered, lowerBounds, upperBounds,
                   validSplits, watching, applied, stack, seen>>

---------------------------------------------------------------------------
(* notifyLowerBound / notifyUpperBound *)

\* as LowerBoundQualifies, with the test of _f left out
LowerBoundQualifiesOnlyB(v, bound) == (v = B) /\ IsPositive(bound)

\* ( variable == _b || variable == _f ) && FloatUtils::isPositive( bound )
LowerBoundQualifies(v, bound) == (v = B \/ v = F) /\ IsPositive(bound)

\* as UpperBoundQualifies, with _b accepted as well
UpperBoundQualifiesAlsoB(v, bound) == (v = B \/ v = F) /\ IsNegative(bound)

\* ( variable == _f ) && FloatUtils::isNegative( bound )
UpperBoundQualifies(v, bound) == (v = F) /\ IsNegative(bound)

\* as StuckIn, with a list that already holds one split left as it is
StuckInUnlessSingle(splits, split) ==
    IF Len(splits) = 1 THEN splits ELSE Append(SubSeq(splits, 1, 0), split)

\* as StuckIn, with the clear() left out
StuckInWithoutClear(splits, split) == Append(splits, split)

\* _validSplits.clear(); _validSplits.append( split );
StuckIn(splits, split) == Append(SubSeq(splits, 1, 0), split)

\* as StuckAndApply, with ASSERT( _tableau ) ahead of the clear()
StuckAndApplyAssertFirst(op, v, bound, split) ==
    IF tableau # NULL
    THEN /\ validSplits' = StuckIn(validSplits, split)
         /\ applied' = ApplySplit(applied, tableau, split)
         /\ stack' = Append(stack, split)
         /\ last' = Call(op, v, bound, NULL, Ok)
    ELSE /\ last' = Call(op, v, bound, NULL, AssertionViolation)
         /\ UNCHANGED <<validSplits, applied, stack>>

\* as StuckAndApply, with the split applied while the list of valid splits
\* is still as it was
StuckAndApplyWithoutCollapse(op, v, bound, split) ==
    IF tableau # NULL
    THEN /\ validSplits' = validSplits
         /\ applied' = ApplySplit(applied, tableau, split)
         /\ stack' = Append(stack, split)
         /\ last' = Call(op, v, bound, NULL, Ok)
    ELSE /\ validSplits' = StuckIn(validSplits, split)
         /\ last' = Call(op, v, bound, NULL, AssertionViolation)
         /\ UNCHANGED <<applied, stack>>

\* The part both handlers share once the bound qualifies: the list of valid
\* splits becomes the one split, then ASSERT( _tableau ), then the tableau
\* applies the split; control is inside applySplit until it returns.
StuckAndApply(op, v, bound, split) ==
    /\ validSplits' = StuckIn(validSplits, split)
    /\ IF tableau # NULL
       THEN /\ applied' = ApplySplit(applied, tableau, split)
            /\ stack' = Append(stack, split)
            /\ last' = Call(op, v, bound, NULL, Ok)
       ELSE \* ASSERT( _tableau ) fails
            /\ last' = Call(op, v, bound, NULL, AssertionViolation)
            /\ UNCHANGED <<applied, stack>>

NotifyLowerBound(v, bound) ==
    /\ CanCall
    /\ calls' = calls + 1
    /\ lowerBounds' = Put(lowerBounds, v, bound)
    /\ IF LowerBoundQualifies(v, bound)
       THEN /\ seen' = seen \cup {"positiveLower"}
            /\ StuckAndApply("notifyLowerBound", v, bound, Splits[1])
       ELSE /\ last' = Call("notifyLowerBound", v, bound, NULL, Ok)
            /\ UNCHANGED <<validSplits, applied, stack, seen>>
    /\ UNCHANGED <<tableau, unregistered, assignment, upperBounds, watching>>

NotifyUpperBound(v, bound) ==
    /\ CanCall
    /\ calls' = calls + 1
    /\ upperBounds' = Put(upperBounds, v, bound)
    /\ IF UpperBoundQualifies(v, bound)
       THEN /\ seen' = seen \cup {"negativeUpper"}
            /\ StuckAndApply("notifyUpperBound", v, bound, Splits[2])
       ELSE /\ last' = Call("notifyUpperBound", v, bound, NULL, Ok)
            /\ UNCHANGED <<validSplits, applied, stack, seen>>
    /\ UNCHANGED <<tableau, unregistered, assignment, lowerBounds, watching>>

\* The tableau's applySplit returns to the handler that called it, and the
\* handler returns.
ApplySplitReturns ==
    /\ Running
    /\ stack # <<>>
    /\ stack' = SubSeq(stack, 1, Len(stack) - 1)
    /\ UNCHANGED <<tableau, unregistered, assignment, lowerBounds, upperBounds,
                   validSplits, watching, applied, last, seen, calls>>

---------------------------------------------------------------------------
(* satisfied *)

\* as SatisfiedOn, with the inactive case asking for a negative b
SatisfiedOnNegativeInput(bValue, fValue) ==
    IF IsPositive(fValue)
    THEN AreEqual(bValue, fValue)
    ELSE IsNegative(bValue)

\* the decision of satisfied() on the two cached values
SatisfiedOn(bValue, fValue) ==
    IF IsPositive(fValue)
    THEN AreEqual(bValue, fValue)
    ELSE ~IsPositive(bValue)

\* as SatisfiedOutcome, with missing values taken as satisfied instead of
\* thrown
SatisfiedOutcomeDefaulted(m) ==
    IF ~(Exists(m, B) /\ Exists(m, F))
    THEN "true"
    ELSE IF IsNegative(Get(m, F))
         THEN AssertionViolation
         ELSE IF SatisfiedOn(Get(m, B), Get(m, F)) THEN "true" ELSE "false"

\* as SatisfiedOutcome, without the ASSERT on fValue
SatisfiedOutcomeUnasserted(m) ==
    IF ~(Exists(m, B) /\ Exists(m, F))
    THEN ParticipatingVariablesAbsent
    ELSE IF SatisfiedOn(Get(m, B), Get(m, F)) THEN "true" ELSE "false"

\* How satisfied() ends on the map m: "true", "false", the exception, or
\* the failed ASSERT( !FloatUtils::isNegative( fValue ) ).
SatisfiedOutcome(m) ==
    IF ~(Exists(m, B) /\ Exists(m, F))
    THEN ParticipatingVariablesAbsent
    ELSE IF IsNegative(Get(m, F))
         THEN AssertionViolation
         ELSE IF SatisfiedOn(Get(m, B), Get(m, F)) THEN "true" ELSE "false"

Satisfied ==
    /\ CanCall
    /\ last' = Call("satisfied", 0, 0, NULL, SatisfiedOutcome(assignment))
    /\ calls' = calls + 1
    /\ UNCHANGED <<tableau, unregistered, assignment, lowerBounds, upperBounds,
                   validSplits, watching, applied, stack, seen>>

---------------------------------------------------------------------------
(* getPossibleFixes *)

\* PiecewiseLinearConstraint::Fix( variable, value )
Fix(v, value) == <<v, value>>

\* as FixesOn, with the two values of the first case exchanged
FixesOnOwnValues(bValue, fValue) ==
    IF IsPositive(fValue)
    THEN IF IsPositive(bValue)
         THEN <<Fix(B, bValue), Fix(F, fValue)>>
         ELSE <<Fix(B, fValue), Fix(F, 0)>>
    ELSE <<Fix(B, 0), Fix(F, bValue)>>

\* as FixesOn, with the fix of f appended before the fix of b
FixesOnReversed(bValue, fValue) ==
    IF IsPositive(fValue)
    THEN IF IsPositive(bValue)
         THEN <<Fix(F, bValue), Fix(B, fValue)>>
         ELSE <<Fix(F, 0), Fix(B, fValue)>>
    ELSE <<Fix(F, bValue), Fix(B, 0)>>

\* the list of fixes built for the two cached values
FixesOn(bValue, fValue) ==
    IF IsPositive(fValue)
    THEN IF IsPositive(bValue)
         THEN <<Fix(B, fValue), Fix(F, bValue)>>
         ELSE <<Fix(B, fValue), Fix(F, 0)>>
    ELSE <<Fix(B, 0), Fix(F, bValue)>>

\* How getPossibleFixes() ends on the map m.  ASSERT( !satisfied() ) calls
\* satisfied(): its exception and its failed ASSERT end this call too, and
\* so does a satisfied constraint.
PossibleFixesOutcome(m) ==
    IF SatisfiedOutcome(m) = "false"
    THEN Ok
    ELSE IF SatisfiedOutcome(m) = "true"
         THEN AssertionViolation
         ELSE SatisfiedOutcome(m)

GetPossibleFixes ==
    /\ CanCall
    /\ last' = [Call("getPossibleFixes", 0, 0, NULL,
                     PossibleFixesOutcome(assignment))
                EXCEPT !.fixes =
                    IF PossibleFixesOutcome(assignment) = Ok
                    THEN FixesOn(Get(assignment, B), Get(assignment, F))
                    ELSE <<>>]
    /\ calls' = calls + 1
    /\ UNCHANGED <<tableau, unregistered, assignment, lowerBounds, upperBounds,
                   validSplits, watching, applied, stack, seen>>

---------------------------------------------------------------------------
(* getCaseSplits *)

\* as GetCaseSplits, returning _splits instead of _validSplits
GetCaseSplitsAll ==
    /\ CanCall
    /\ last' = [Call("getCaseSplits", 0, 0, NULL, Ok)
                EXCEPT !.splits = Splits]
    /\ calls' = calls + 1
    /\ UNCHANGED <<tableau, unregistered, assignment, lowerBounds, upperBounds,
                   validSplits, watching, applied, stack, seen>>

GetCaseSplits ==
    /\ CanCall
    /\ last' = [Call("getCaseSplits", 0, 0, NULL, Ok)
                EXCEPT !.splits = validSplits]
    /\ calls' = calls + 1
    /\ UNCHANGED <<tableau, unregistered, assignment, lowerBounds, upperBounds,
                   validSplits, watching, applied, stack, seen>>

---------------------------------------------------------------------------
Next ==
    \/ \E t \in Tableaus : RegisterAsWatcher(t)
    \/ \E t \in Tableaus : UnregisterAsWatcher(t)
    \/ \E v \in Vars, value \in Values : NotifyVariableValue(v, value)
    \/ \E v \in Vars, bound \in Values : NotifyLowerBound(v, bound)
    \/ \E v \in Vars, bound \in Values : NotifyUpperBound(v, bound)
    \/ ApplySplitReturns
    \/ Satisfied
    \/ GetPossibleFixes
    \/ GetCaseSplits

Spec == Init /\ [][Next]_vars

---------------------------------------------------------------------------
(* Vocabulary of the properties *)

\* This step is a call of op on the constraint.
Called(op) == calls' = calls + 1 /\ last'.op = op

BothCached == Exists(assignment, B) /\ Exists(assignment, F)

\* The maps m and n agree on the key k: both lack it, or both hold the same
\* value for it.
SameEntry(m, n, k) ==
    /\ Exists(m, k) <=> Exists(n, k)
    /\ Exists(m, k) => Get(m, k) = Get(n, k)

\* The map n holds the value val for the key k.
Holds(n, k, val) == Exists(n, k) /\ Get(n, k) = val

---------------------------------------------------------------------------
(* Properties *)

\* C1: a bound notification that would collapse the list of valid splits to
\* a split that is already the sole valid split does not make the tableau
\* apply that split again.
NoReapplyOfSolePhase ==
    [][\A s \in {Active, Inactive} :
          (validSplits = <<s>> /\ tableau # NULL)
              => applied' # ApplySplit(applied, tableau, s)]_vars

\* C2: once notifyLowerBound was called with a strictly positive bound on b
\* or f, the list of valid splits is {Active} in every later state.
ActiveForeverAfterPositiveLower ==
    "positiveLower" \in seen => validSplits = <<Active>>

\* C3: once notifyUpperBound was called with a strictly negative bound on f,
\* the list of valid splits is {Inactive} in every later state.
InactiveForeverAfterNegativeUpper ==
    "negativeUpper" \in seen => validSplits = <<Inactive>>

\* C4: the list of valid splits starts with both splits, is never empty,
\* holds no split twice, and never gets longer: one split is never
\* restored to two.
ValidSplitsNeverGrow ==
    /\ Len(validSplits) = 2
    /\ [](/\ Len(validSplits) >= 1
          /\ \A i \in 1..Len(validSplits) : validSplits[i] \in {Active, Inactive}
          /\ \A i, j \in 1..Len(validSplits) :
                 validSplits[i] = validSplits[j] => i = j)
    /\ [][Len(validSplits') <= Len(validSplits)]_vars

ValidSplitsStayedSingle ==
    /\ Len(validSplits) = 1
    /\ seen = {"positiveLower", "negativeUpper"}

\* C5: on a registered constraint that has seen no qualifying bound yet,
\* notifyLowerBound with a strictly positive bound on b or f leaves {Active}
\* as the valid splits and makes the tableau receive exactly one applySplit,
\* of the active split, inside the handler (which has not returned).
FirstPositiveLowerAppliesActiveOnce ==
    [][\A v \in {B, F} :
          (/\ Called("notifyLowerBound")
           /\ last'.var = v
           /\ last'.val > 0
           /\ seen = {}
           /\ tableau # NULL)
          => /\ validSplits' = <<Active>>
             /\ applied = <<>>
             /\ applied' = << <<tableau, Active>> >>
             /\ stack' = Append(stack, Active)
             /\ last'.result = Ok]_vars

FirstPositiveLowerApplied ==
    /\ last.op = "notifyLowerBound"
    /\ last.var = F
    /\ last.val > 0
    /\ calls = 2
    /\ validSplits = <<Active>>
    /\ applied = << <<tableau, Active>> >>
    /\ stack = <<Active>>

\* C6: with both values cached and f not negative, satisfied() returns true
\* exactly when (f > 0 and b equals f within the tolerance) or (f is zero
\* and b <= 0), and false otherwise.
SatisfiedDecides ==
    (last.op = "satisfied" /\ BothCached /\ ~(assignment[F] < 0))
    => LET b == assignment[B]
           f == assignment[F]
       IN  /\ last.result \in {"true", "false"}
           /\ (last.result = "true")
                  <=> \/ f > 0 /\ b - f <= Epsilon /\ f - b <= Epsilon
                      \/ f = 0 /\ b <= 0

SatisfiedWithinTolerance ==
    /\ last.op = "satisfied"
    /\ last.result = "true"
    /\ BothCached
    /\ assignment[F] > 0
    /\ assignment[B] # assignment[F]

\* C7: when satisfied() is false, getPossibleFixes() returns exactly two
\* fixes, and putting a fix's value in place of the cached value of its
\* variable (the other value untouched) makes satisfied() true.
EitherFixSatisfies ==
    (last.op = "getPossibleFixes" /\ SatisfiedOutcome(assignment) = "false")
    => /\ last.result = Ok
       /\ Len(last.fixes) = 2
       /\ \A i \in 1..Len(last.fixes) :
              /\ last.fixes[i][1] \in {B, F}
              /\ SatisfiedOutcome(Put(assignment, last.fixes[i][1],
                                      last.fixes[i][2])) = "true"

FixesForBothPositive ==
    /\ last.op = "getPossibleFixes"
    /\ last.result = Ok
    /\ Len(last.fixes) = 2
    /\ assignment[B] > 0
    /\ assignment[F] > 0

\* C8: for an unsatisfied (b, f) the two fixes come in this order:
\* [(b, f), (f, b)] when f > 0, b > 0 and b differs from f;
\* [(b, f), (f, 0)] when f > 0 and b <= 0; [(b, 0), (f, b)] when f is zero
\* and b > 0; exactly one of the three conditions holds.
FixesInFixedOrder ==
    (last.op = "getPossibleFixes" /\ SatisfiedOutcome(assignment) = "false")
    => LET b == assignment[B]
           f == assignment[F]
           bothPositive == f > 0 /\ b > 0 /\ b # f
           inputNonPositive == f > 0 /\ b <= 0
           outputZero == f = 0 /\ b > 0
       IN  /\ f >= 0
           /\ bothPositive => last.fixes = << <<B, f>>, <<F, b>> >>
           /\ inputNonPositive => last.fixes = << <<B, f>>, <<F, 0>> >>
           /\ outputZero => last.fixes = << <<B, 0>>, <<F, b>> >>
           /\ bothPositive \/ inputNonPositive \/ outputZero
           /\ ~(bothPositive /\ inputNonPositive)
           /\ ~(bothPositive /\ outputZero)
           /\ ~(inputNonPositive /\ outputZero)

FixesForNonPositiveInput ==
    /\ last.op = "getPossibleFixes"
    /\ last.fixes = << <<B, MaxVal>>, <<F, 0>> >>
    /\ assignment[B] < 0

\* C9: satisfied() and getPossibleFixes(), called while the value of b or of
\* f is not cached, end in the PARTICIPATING_VARIABLES_ABSENT error, return
\* nothing, and change neither the caches, the valid splits nor the tableau.
QueryWithoutValuesThrows ==
    [][((Called("satisfied") \/ Called("getPossibleFixes")) /\ ~BothCached)
          => /\ last'.result = ParticipatingVariablesAbsent
             /\ last'.fixes = <<>>
             /\ UNCHANGED <<assignment, lowerBounds, upperBounds, validSplits,
                            tableau, watching, applied, stack>>]_vars

FixesQueriedWithOneValue ==
    /\ last.op = "getPossibleFixes"
    /\ last.result = ParticipatingVariablesAbsent
    /\ Exists(assignment, B)
    /\ ~Exists(assignment, F)

\* C10: unregisterAsWatcher with a tableau other than the registered one,
\* or with none registered, fails fatally: no variable is unsubscribed and
\* the stored tableau stays as it was.
WrongUnregisterIsFatal ==
    [][\A t \in Tableaus :
          (Called("unregisterAsWatcher") /\ last'.tab = t /\ tableau # t)
          => /\ last'.result = AssertionViolation
             /\ watching' = watching
             /\ tableau' = tableau]_vars

UnregisteredFromOtherTableau ==
    /\ last.op = "unregisterAsWatcher"
    /\ last.result = AssertionViolation
    /\ tableau \in Tableaus
    /\ last.tab # tableau
    /\ watching[tableau] = {B, F}

\* C11: the subscriptions at a tableau agree with the stored reference:
\* the registered tableau always has this constraint watching b and f;
\* registerAsWatcher(T) stores T and leaves it watching exactly b and f on
\* T; a matching unregisterAsWatcher(T) leaves it watching neither on T and
\* holding no tableau.
SubscriptionsAgreeWithReference ==
    /\ [](tableau # NULL => watching[tableau] = {B, F})
    /\ [][\A t \in Tableaus :
             /\ (Called("registerAsWatcher") /\ last'.tab = t)
                    => /\ tableau' = t
                       /\ watching'[t] = {B, F}
                       /\ last'.result = Ok
             /\ (Called("unregisterAsWatcher") /\ last'.tab = t
                     /\ tableau = t)
                    => /\ tableau' = NULL
                       /\ watching'[t] = {}
                       /\ last'.result = Ok]_vars

UnregisteredFromRegisteredTableau ==
    /\ last.op = "unregisterAsWatcher"
    /\ last.result = Ok
    /\ unregistered
    /\ tableau = NULL
    /\ watching[last.tab] = {}

\* C12: getCaseSplits() returns the list of valid splits as it is (one or
\* two splits), whether or not any value is cached, and changes nothing:
\* neither the caches, nor the valid splits, nor the tableau; a call right
\* after another returns the same list.
GetCaseSplitsIsPureRead ==
    [][Called("getCaseSplits")
          => /\ last'.result = Ok
             /\ last'.splits = validSplits
             /\ Len(last'.splits) \in {1, 2}
             /\ (last.op = "getCaseSplits" => last'.splits = last.splits)
             /\ UNCHANGED <<assignment, lowerBounds, upperBounds, validSplits,
                            tableau, watching, applied, stack>>]_vars

CaseSplitsReadWithoutValues ==
    /\ last.op = "getCaseSplits"
    /\ last.splits = <<Active>>
    /\ assignment = EmptyMap
    /\ applied = << <<tableau, Active>> >>

\* C13: notifyVariableValue(var, value) with var other than b and f changes
\* nothing: neither the value cache, the bound caches, the valid splits nor
\* the tableau; with var one of b and f it changes only the cached value of
\* var.
ValueOfOtherVariableIsNoOp ==
    [][Called("notifyVariableValue")
          => /\ UNCHANGED <<lowerBounds, upperBounds, validSplits, tableau,
                            watching, applied, stack>>
             /\ last'.var \notin {B, F} => assignment' = assignment
             /\ last'.var \in {B, F}
                    => assignment' = Put(assignment, last'.var, last'.val)]_vars

\* C14: for b and for f, the cached value, lower bound and upper bound are
\* absent at first, become the argument of each notifyVariableValue,
\* notifyLowerBound and notifyUpperBound call for that variable, and are
\* left alone by every other call; satisfied() and getPossibleFixes()
\* decide on the values cached at the time of the call.
CachesHoldLatestNotification ==
    /\ [](last.op = "construct"
             => /\ assignment = EmptyMap
                /\ lowerBounds = EmptyMap
                /\ upperBounds = EmptyMap)
    /\ [][\A v \in {B, F} :
             /\ IF Called("notifyVariableValue") /\ last'.var = v
                THEN Holds(assignment', v, last'.val)
                ELSE SameEntry(assignment', assignment, v)
             /\ IF Called("notifyLowerBound") /\ last'.var = v
                THEN Holds(lowerBounds', v, last'.val)
                ELSE SameEntry(lowerBounds', lowerBounds, v)
             /\ IF Called("notifyUpperBound") /\ last'.var = v
                THEN Holds(upperBounds', v, last'.val)
                ELSE SameEntry(upperBounds', upperBounds, v)
             /\ (Called("satisfied") /\ BothCached /\ assignment[F] >= 0)
                    => (last'.result = "true"
                           <=> SatisfiedOn(assignment[B], assignment[F]))
             /\ (Called("getPossibleFixes") /\ last'.result = Ok)
                    => last'.fixes = FixesOn(assignment[B], assignment[F])]_vars

BothValuesNotified ==
    /\ last.op = "notifyVariableValue"
    /\ last.var = F
    /\ calls = MaxCalls
    /\ Holds(assignment, F, last.val)
    /\ Exists(assignment, B)
    /\ Get(assignment, B) # Get(assignment, F)

\* C15: whenever a bound handler calls the tableau's applySplit, the bound
\* is already cached and the list of valid splits is already exactly the
\* split being applied; while an applySplit is in progress the list holds
\* one split, and getCaseSplits never returns an empty list.
ReentryPointsSeeCollapsedList ==
    /\ [](/\ stack # <<>> => Len(validSplits) = 1
          /\ last.op = "getCaseSplits" => Len(last.splits) >= 1)
    /\ [][applied' # applied
             => LET s == stack'[Len(stack')]
                IN  /\ stack' = Append(stack, s)
                    /\ applied' = ApplySplit(applied, tableau, s)
                    /\ validSplits' = <<s>>
                    /\ \/ /\ Called("notifyLowerBound")
                          /\ s = Active
                          /\ Holds(lowerBounds', last'.var, last'.val)
                       \/ /\ Called("notifyUpperBound")
                          /\ s = Inactive
                          /\ Holds(upperBounds', last'.var, last'.val)]_vars

CaseSplitsReadInsideApplySplit ==
    /\ last.op = "getCaseSplits"
    /\ stack = <<Inactive>>
    /\ last.splits = <<Inactive>>
    /\ validSplits = <<Inactive>>

\* C16: construction calls no tableau (no registration, no applySplit) and
\* leaves both splits valid and the value and bound caches empty; the
\* active split reaches a tableau only through a later notifyLowerBound
\* with a strictly positive bound on b or f.
ConstructionTouchesNoTableau ==
    /\ [](last.op = "construct"
             => /\ tableau = NULL
                /\ \A t \in Tableaus : watching[t] = {}
                /\ applied = <<>>
                /\ validSplits = <<Active, Inactive>>
                /\ assignment = EmptyMap
                /\ lowerBounds = EmptyMap
                /\ upperBounds = EmptyMap)
    /\ [][(Len(applied') > Len(applied)
              /\ applied'[Len(applied')][2] = Active)
             => /\ Called("notifyLowerBound")
                /\ last'.var \in {B, F}
                /\ last'.val > 0]_vars

Constructed ==
    /\ last.op = "construct"
    /\ calls = 0
    /\ validSplits = <<Active, Inactive>>
    /\ applied = <<>>
    /\ tableau = NULL

\* C17: satisfied() and getPossibleFixes(), called with both values cached
\* and the value of f strictly negative, end in a failed assertion and
\* return neither true, false nor fixes.
NegativeOutputIsFatal ==
    [][((Called("satisfied") \/ Called("getPossibleFixes"))
            /\ BothCached /\ assignment[F] < 0)
          => /\ last'.result = AssertionViolation
             /\ last'.fixes = <<>>]_vars

FixesQueriedWithNegativeOutput ==
    /\ last.op = "getPossibleFixes"
    /\ last.result = AssertionViolation
    /\ BothCached
    /\ assignment[F] < 0

\* C18: a bound notification that does not qualify leaves the list of valid
\* splits as it is and calls no applySplit: notifyLowerBound unless the
\* variable is b or f and the bound strictly positive, notifyUpperBound
\* unless the variable is f and the bound strictly negative (so also for a
\* strictly negative upper bound on b).
NonQualifyingBoundChangesNothing ==
    [][/\ (Called("notifyLowerBound")
              /\ ~(last'.var \in {B, F} /\ last'.val > 0))
          => /\ UNCHANGED <<validSplits, applied, stack>>
             /\ last'.result = Ok
       /\ (Called("notifyUpperBound")
              /\ ~(last'.var = F /\ last'.val < 0))
          => /\ UNCHANGED <<validSplits, applied, stack>>
             /\ last'.result = Ok]_vars

NegativeUpperBoundOnInput ==
    /\ last.op = "notifyUpperBound"
    /\ last.var = B
    /\ last.val < 0
    /\ tableau # NULL
    /\ validSplits = <<Active, Inactive>>
    /\ applied = <<>>

QualifyingBoundWhileUnregisteredIsFatal ==
    [][/\ (Called("notifyLowerBound") /\ unregistered
              /\ last'.var \in {B, F} /\ last'.val > 0)
          => /\ tableau = NULL
             /\ last'.result = AssertionViolation
             /\ UNCHANGED <<applied, stack>>
             /\ Holds(lowerBounds', last'.var, last'.val)
             /\ validSplits' = <<Active>>
       /\ (Called("notifyUpperBound") /\ unregistered
              /\ last'.var = F /\ last'.val < 0)
          => /\ tableau = NULL
             /\ last'.result = AssertionViolation
             /\ UNCHANGED <<applied, stack>>
             /\ Holds(upperBounds', last'.var, last'.val)
             /\ validSplits' = <<Inactive>>]_vars

NegativeUpperBoundAfterUnregister ==
    /\ last.op = "notifyUpperBound"
    /\ last.result = AssertionViolation
    /\ unregistered
    /\ Holds(upperBounds, F, last.val)
    /\ validSplits = <<Inactive>>
    /\ applied = <<>>

====
